---- MODULE Spec2Model ----
(***************************************************************************)
(* git-anon: rewriting of commit history with an anonymous identity.       *)
(*                                                                         *)
(* The repository is modelled as git stores it: a content-addressed        *)
(* object store (a commit IS its content, so two commits with equal tree,  *)
(* message, signatures, time and parents are the same object), a map of    *)
(* local branches, HEAD, remote-tracking references and a reflog.  One     *)
(* action models one invocation of a public operation.  The variables      *)
(* `pre` and `last` are history variables: the repository before the most  *)
(* recent invocation and a record of what that invocation did.             *)
(***************************************************************************)
EXTENDS Integers, Sequences, FiniteSets, TLC

VARIABLES
    objects,     \* set of commit objects in the object store
    branches,    \* local branches: branch name -> commit
    head,        \* HEAD: attached to a branch, or detached at a commit
    reflog,      \* sequence of reference-update entries
    remoteRefs,  \* remote-tracking references: <<remote, branch>> -> commit
    dirty,       \* TRUE iff index or working tree has modifications
    clock,       \* wall clock in whole seconds (Utc::now().timestamp())
    invocations, \* number of invocations made so far
    pre,         \* history: repository before the last invocation
    last,        \* history: record of the last invocation
    pending,     \* a rewrite in progress, stepped call by call
    config,      \* the configuration file (Config)
    resolved     \* history: the last identity resolution

vars == <<objects, branches, head, reflog, remoteRefs, dirty, clock,
          invocations, pre, last, pending, config, resolved>>

\* the repository and its invocations
repovars == <<objects, branches, head, reflog, remoteRefs, dirty, clock,
              invocations, pre, last, pending>>

\* the configuration and its resolutions
cfgvars == <<config, resolved>>

----------------------------------------------------------------------------
(* Bounds *)

\* number of seconds the clock may advance over a behaviour
MaxTicks == 1

\* number of invocations made on one repository
MaxInvocations == 2

----------------------------------------------------------------------------
(* Values *)

\* A commit object.  Its identity is its content (content-addressed hash).
Commit(tree, msg, author, committer, time, parents) ==
    [tree |-> tree, msg |-> msg, author |-> author, committer |-> committer,
     time |-> time, parents |-> parents]

\* Option<Oid>::None
NoCommit == Commit(0, "", "", "", 0, <<>>)

\* A branch name: format!("{prefix}{base}-{ts}") for backups, base otherwise.
Name(prefix, base, ts) == [prefix |-> prefix, base |-> base, ts |-> ts]

Local(base) == Name("", base, 0)

NoName == Name("", "", 0)

\* The identity of the developer whose commits are to be anonymized.
Dev == "dev"

\* AnonymousIdentity handed to GitAnon::new
Identities == {"anon"}

\* message.unwrap_or_else(|| "Initial commit")
DefaultMessage == "Initial commit"

Range(s) == {s[i] : i \in 1..Len(s)}

Reverse(s) == [i \in 1..Len(s) |-> s[Len(s) + 1 - i]]

RECURSIVE Ancestors(_)
\* commits reachable from c by following parent links, c included
Ancestors(c) ==
    IF c = NoCommit THEN {}
    ELSE {c} \cup UNION {Ancestors(p) : p \in Range(c.parents)}

----------------------------------------------------------------------------
(* GitOps (src/src/git.rs).  Operators work on a repository record X with  *)
(* fields objects, branches, head, reflog, remoteRefs, plus two logs of    *)
(* the running invocation: trace (the repository calls made, in order)     *)
(* and created (commit objects added to the store).                        *)

\* Result<..>: Ok carries the repository after the call, Err the repository
\* as the failed call left it and the error text.
Ok(X) == [ok |-> TRUE, X |-> X, err |-> ""]

Err(X, why) == [ok |-> FALSE, X |-> X, err |-> why]

Step(X, what) == [X EXCEPT !.trace = Append(@, what)]

\* repo.head()?.peel_to_commit() / repo.head()?.target()
HeadTarget(X) ==
    IF X.head.attached THEN X.branches[X.head.name] ELSE X.head.oid

\* head.shorthand().unwrap_or("HEAD"): the branch name, "HEAD" when detached
current_branch(X) ==
    IF X.head.attached THEN X.head.name ELSE Local("HEAD")

\* statuses.iter().any(|s| s.status().intersects(change_flags))
has_uncommitted_changes(isDirty) == isDirty

\* a variant of create_commit that passes Some("HEAD") as the reference to
\* update, which moves the checked-out branch to every commit written
create_commit_moving_head(X, c) ==
    [X EXCEPT !.objects = @ \cup {c},
              !.created = IF c \in X.objects THEN @ ELSE @ \cup {c},
              !.branches = IF X.head.attached
                           THEN [@ EXCEPT ![X.head.name] = c] ELSE @,
              !.trace = Append(@, "commit")]

\* repo.commit(None, ..): writes the object, updates no reference.  Writing
\* an object that the store already holds adds nothing.
create_commit(X, c) ==
    [X EXCEPT !.objects = @ \cup {c},
              !.created = IF c \in X.objects THEN @ ELSE @ \cup {c},
              !.trace = Append(@, "commit")]

\* a variant of set_target that moves every branch found at the old target
set_target_of_all_at_old(X, branch, oid, msg) ==
    [X EXCEPT !.branches = [b \in DOMAIN @ |->
                               IF @[b] = X.branches[branch] THEN oid ELSE @[b]],
              !.reflog = Append(@, [ref |-> branch, old |-> X.branches[branch],
                                    new |-> oid, msg |-> msg]),
              !.trace = Append(@, "set_target")]

\* branch_ref.get_mut().set_target(oid, msg)
set_target(X, branch, oid, msg) ==
    [X EXCEPT !.branches = [@ EXCEPT ![branch] = oid],
              !.reflog = Append(@, [ref |-> branch, old |-> X.branches[branch],
                                    new |-> oid, msg |-> msg]),
              !.trace = Append(@, "set_target")]

\* repo.branch(name, &head_commit, force = false)
create_backup_branch(X, branch_name, fault) ==
    IF fault = "backup" THEN Err(X, "branch")
    ELSE IF branch_name \in DOMAIN X.branches THEN Err(X, "branch exists")
    ELSE Ok([X EXCEPT
             !.branches = (branch_name :> HeadTarget(X)) @@ @,
             !.reflog = Append(@, [ref |-> branch_name, old |-> NoCommit,
                                   new |-> HeadTarget(X), msg |-> "branch: Created"]),
             !.trace = Append(@, "create_branch")])

\* a variant of squash_all_commits that keeps the old tip as the parent
squash_all_commits_on_tip(X, identity, message, branch, now, fault) ==
    LET new_commit_oid == Commit(HeadTarget(X).tree, message, identity, identity,
                                 now, <<HeadTarget(X)>>)
        X1 == create_commit(X, new_commit_oid)
    IN  IF fault = "commit" THEN Err(X, "commit")
        ELSE IF branch \notin DOMAIN X1.branches THEN Err(X1, "find_branch")
        ELSE IF fault = "set_target" THEN Err(X1, "set_target")
        ELSE Ok(set_target(X1, branch, new_commit_oid, "Squashed all commits"))

squash_all_commits(X, identity, message, branch, now, fault) ==
    LET commits == Ancestors(HeadTarget(X))
        tree == HeadTarget(X).tree
        new_commit_oid == Commit(tree, message, identity, identity, now, <<>>)
        X1 == create_commit(X, new_commit_oid)
    IN  IF commits = {} THEN Err(X, "No commits found in repository")
        ELSE IF fault = "commit" THEN Err(X, "commit")
        ELSE IF branch \notin DOMAIN X1.branches THEN Err(X1, "find_branch")
        ELSE IF fault = "set_target" THEN Err(X1, "set_target")
        ELSE Ok(set_target(X1, branch, new_commit_oid, "Squashed all commits"))

RECURSIVE Fresh(_, _)
\* the parents not yet seen by the walk (nor hidden), in parent order
Fresh(ps, seen) ==
    IF ps = <<>> THEN <<>>
    ELSE IF Head(ps) \in seen THEN Fresh(Tail(ps), seen)
    ELSE <<Head(ps)>> \o Fresh(Tail(ps), seen \cup {Head(ps)})

\* Which of several pending commits with the same commit time the revision
\* walk returns first is not specified by the library.
TieRules == {"fifo", "lifo"}

RECURSIVE Walk(_, _, _)
\* Revwalk with the default sorting: repeatedly return the pending commit
\* with the newest commit time and make its parents pending.
Walk(queue, seen, tie) ==
    IF queue = <<>> THEN <<>>
    ELSE LET newest == CHOOSE t \in {queue[i].time : i \in 1..Len(queue)} :
                           \A i \in 1..Len(queue) : queue[i].time <= t
             idxs == {i \in 1..Len(queue) : queue[i].time = newest}
             k == IF tie = "fifo"
                  THEN CHOOSE i \in idxs : \A j \in idxs : i <= j
                  ELSE CHOOSE i \in idxs : \A j \in idxs : i >= j
             c == queue[k]
             rest == [i \in 1..(Len(queue) - 1) |->
                          IF i < k THEN queue[i] ELSE queue[i + 1]]
             fresh == Fresh(c.parents, seen)
         IN  <<c>> \o Walk(rest \o fresh, seen \cup Range(fresh), tie)

\* a variant of collect_commits that forgets to hide since_commit
collect_commits_unbounded(X, since_commit, tie) ==
    [ok |-> since_commit = NoCommit \/ since_commit \in X.objects,
     commits |-> Walk(<<HeadTarget(X)>>, {HeadTarget(X)}, tie)]

\* revwalk.push_head(); revwalk.hide(since); revwalk.collect()
collect_commits(X, since_commit, tie) ==
    LET hidden == Ancestors(since_commit)
        tip == HeadTarget(X)
    IN  IF since_commit # NoCommit /\ since_commit \notin X.objects
        THEN [ok |-> FALSE, commits |-> <<>>]
        ELSE [ok |-> TRUE,
              commits |-> IF tip \in hidden THEN <<>>
                          ELSE Walk(<<tip>>, hidden \cup {tip}, tie)]

\* a variant of count_commits_to_anonymize that counts the whole history
count_commits_of_history(X, since_commit, tie) ==
    [ok |-> collect_commits(X, since_commit, tie).ok,
     count |-> Len(collect_commits(X, NoCommit, tie).commits)]

count_commits_to_anonymize(X, since_commit, tie) ==
    LET c == collect_commits(X, since_commit, tie)
    IN  [ok |-> c.ok, count |-> Len(c.commits)]

\* new_commits: HashMap<Oid, Oid>, kept as the sequence of its insertions
MapHas(map, oid) == \E i \in 1..Len(map) : map[i].old = oid

MapGet(map, oid) ==
    map[CHOOSE i \in 1..Len(map) :
            map[i].old = oid /\ \A j \in 1..Len(map) : map[j].old = oid => j <= i].new

MapInsert(map, oid, new_oid) == Append(map, [old |-> oid, new |-> new_oid])

\* a variant of new_parents that keeps a parent the mapping does not hold
new_parents_keeping_unmapped(map, commit) ==
    [i \in 1..Len(commit.parents) |->
        IF MapHas(map, commit.parents[i]) THEN MapGet(map, commit.parents[i])
        ELSE commit.parents[i]]

\* commit.parent_ids().filter_map(|pid| new_commits.get(&pid)...).collect()
new_parents(map, commit) ==
    LET kept == SelectSeq(commit.parents, LAMBDA pid : MapHas(map, pid))
    IN  [i \in 1..Len(kept) |-> MapGet(map, kept[i])]

AResult(ok, X, err, count, map) ==
    [ok |-> ok, X |-> X, err |-> err, count |-> count, map |-> map]

\* the entries of new_commits that the closure of filter_map finds:
\* self.repo.find_commit(new_oid).ok() turns a failed lookup into None.
\* `lost` holds the positions of the entries whose commit cannot be read.
found_commits(map, lost) ==
    SelectSeq(map, LAMBDA e : \E j \in 1..Len(map) : map[j] = e /\ j \notin lost)

RECURSIVE remap_loop(_, _, _, _, _, _, _, _)
\* for (i, &oid) in commits.iter().rev().enumerate() { .. }; an injected
\* failure of repo.commit strikes the iteration failAt
remap_loop(X, rev, i, map, identity, now, failAt, lost) ==
    IF i > Len(rev) THEN AResult(TRUE, X, "", Len(rev), map)
    ELSE LET commit == rev[i]
             new_oid == Commit(commit.tree, commit.msg, identity, identity, now,
                               new_parents(found_commits(map, lost), commit))
         IN  IF failAt = i THEN AResult(FALSE, X, "commit", Len(rev), map)
             ELSE remap_loop(create_commit(X, new_oid), rev, i + 1,
                             MapInsert(map, commit, new_oid), identity, now,
                             failAt, lost)

\* The fault "find_parent" makes every lookup of the first commit the loop
\* has written fail.
unreadable(fault) == IF fault = "find_parent" THEN {1} ELSE {}

\* a variant of anonymize_commits that takes the new head from the last
\* commit the walk returned
anonymize_commits_to_last_walked(X, identity, branch, since_commit, now, tie, fault) ==
    LET commits == collect_commits(X, since_commit, tie).commits
        total == Len(commits)
        L == remap_loop(X, Reverse(commits), 1, <<>>, identity, now,
                        IF fault = "commit" THEN total ELSE 0, unreadable(fault))
    IN  IF total = 0 THEN AResult(TRUE, X, "", 0, <<>>)
        ELSE IF ~L.ok THEN L
        ELSE IF branch \notin DOMAIN L.X.branches
             THEN AResult(FALSE, L.X, "find_branch", total, L.map)
        ELSE IF fault = "set_target"
             THEN AResult(FALSE, L.X, "set_target", total, L.map)
        ELSE AResult(TRUE,
                     set_target(L.X, branch, MapGet(L.map, commits[total]),
                                "Anonymized commits"),
                     "", total, L.map)

\* The fault "commit" makes the last repo.commit of the loop fail, so that
\* the commits written before it are left in the store.
anonymize_commits(X, identity, branch, since_commit, now, tie, fault) ==
    LET collected == collect_commits(X, since_commit, tie)
        commits == collected.commits
        total == Len(commits)
        failAt == IF fault = "commit" THEN total ELSE 0
        L == remap_loop(X, Reverse(commits), 1, <<>>, identity, now, failAt,
                        unreadable(fault))
    IN  IF ~collected.ok THEN AResult(FALSE, X, "revparse", 0, <<>>)
        ELSE IF total = 0 THEN AResult(TRUE, X, "", 0, <<>>)
        ELSE IF ~L.ok THEN L
        ELSE IF ~MapHas(L.map, commits[1]) THEN L
        ELSE IF branch \notin DOMAIN L.X.branches
             THEN AResult(FALSE, L.X, "find_branch", total, L.map)
        ELSE IF fault = "set_target"
             THEN AResult(FALSE, L.X, "set_target", total, L.map)
        ELSE AResult(TRUE,
                     set_target(L.X, branch, MapGet(L.map, commits[1]),
                                "Anonymized commits"),
                     "", total, L.map)

\* refs/remotes/{remote}/{branch}, None when the reference does not exist
get_remote_tracking_branch(X, remote, branch) ==
    IF <<remote, branch>> \in DOMAIN X.remoteRefs
    THEN X.remoteRefs[<<remote, branch>>] ELSE NoCommit

\* a variant of push_to_remote that tries a second time when the remote fails
push_to_remote_retrying(X, remote_name, branch, force, fault) ==
    IF fault = "push" THEN Err(Step(Step(X, "push"), "push"), "remote")
    ELSE Ok([Step(X, "push") EXCEPT !.remoteRefs =
                 (<<remote_name, branch>> :> X.branches[branch]) @@ @])

\* remote.push(["[+]refs/heads/b:refs/heads/b"]): without force the remote
\* accepts only a fast-forward of what it has; a successful push updates
\* the remote-tracking reference.
push_to_remote(X, remote_name, branch, force, fault) ==
    LET theirs == get_remote_tracking_branch(X, remote_name, branch)
        X1 == Step(X, "push")
    IN  IF fault = "push" THEN Err(X1, "remote")
        ELSE IF branch \notin DOMAIN X.branches THEN Err(X1, "refspec")
        ELSE IF ~force /\ theirs # NoCommit
                /\ theirs \notin Ancestors(X.branches[branch])
             THEN Err(X1, "non-fast-forward")
        ELSE Ok([X1 EXCEPT !.remoteRefs =
                     (<<remote_name, branch>> :> X.branches[branch]) @@ @])

----------------------------------------------------------------------------
(* GitAnon (src/src/anonymize.rs) *)

\* What an invocation returns and leaves behind: ok is Ok(())/Err(..),
\* outcome tells the Ok paths apart, count is the number of commits counted
\* or rewritten, map the rewrite mapping, backup the backup branch created.
Result(ok, X, err, outcome, count, map, backup) ==
    [ok |-> ok, X |-> X, err |-> err, outcome |-> outcome,
     count |-> count, map |-> map, backup |-> backup]

Fail(X, why, backup) == Result(FALSE, X, why, "error", 0, <<>>, backup)

\* Option<String> is <<>> for None and <<s>> for Some(s)
unwrap_or(opt, default) == IF opt = <<>> THEN default ELSE opt[1]

\* a variant of proceed that reads the answer the wrong way round
proceed_negated(no_confirm, answer) == no_confirm \/ ~answer

\* the prompt is skipped with --yes, otherwise the answer decides
proceed(no_confirm, answer) == no_confirm \/ answer

\* format!("backup-{}-{}", branch, Utc::now().timestamp())
squash_backup_name(branch, now) == Name("backup-", branch.base, now)

\* format!("pre-clean-backup-{}", Utc::now().timestamp())
clean_backup_name(now) == Name("pre-clean-backup-", "", now)

\* a variant of dry_run_report that creates the backup branch it names
dry_run_report_with_backup(X, backup_branch) ==
    create_backup_branch(Step(X, "report"), backup_branch, "none").X

\* the [DRY RUN] preview: prints, touches nothing
dry_run_report(X, backup_branch) == Step(X, "report")

squash(X, isDirty, identity, message, no_confirm, answer, dry_run, now, fault) ==
    LET branch == current_branch(X)
        msg == unwrap_or(message, DefaultMessage)
        backup_branch == squash_backup_name(branch, now)
        X0 == Step(X, "clean_tree")
        Xp == IF no_confirm THEN X0 ELSE Step(X0, "prompt")
        B == create_backup_branch(Step(Xp, "confirm"), backup_branch, fault)
        S == squash_all_commits(B.X, identity, msg, branch, now, fault)
    IN  IF has_uncommitted_changes(isDirty)
        THEN Fail(X, "Uncommitted changes detected", NoName)
        ELSE IF dry_run
        THEN Result(TRUE, dry_run_report(X0, backup_branch), "", "dry_run",
                    0, <<>>, NoName)
        ELSE IF ~proceed(no_confirm, answer)
        THEN Result(TRUE, Step(Xp, "declined"), "", "aborted", 0, <<>>, NoName)
        ELSE IF ~B.ok THEN Fail(B.X, B.err, NoName)
        ELSE IF ~S.ok THEN Fail(S.X, S.err, backup_branch)
        ELSE Result(TRUE, S.X, "", "done", 1, <<>>, backup_branch)

\* a variant of up_to_date that never stops the push
up_to_date_never(count) == FALSE

\* if count == 0 { println!("Already up to date .."); return Ok(()) }
up_to_date(count) == count = 0

push(X, isDirty, identity, remote, branch_arg, force, dry_run, now, tie, fault) ==
    LET current == current_branch(X)
        branch == unwrap_or(branch_arg, current)
        remote_oid == get_remote_tracking_branch(X, remote, branch)
        since_commit == remote_oid
        counted == count_commits_to_anonymize(X, since_commit, tie)
        count == counted.count
        X0 == Step(X, "clean_tree")
        A == anonymize_commits(X0, identity, branch, since_commit, now, tie, fault)
        P == push_to_remote(A.X, remote, branch, force, fault)
    IN  IF has_uncommitted_changes(isDirty)
        THEN Fail(X, "Uncommitted changes detected", NoName)
        ELSE IF ~counted.ok THEN Fail(X0, "revparse", NoName)
        ELSE IF up_to_date(count)
        THEN Result(TRUE, X0, "", "up_to_date", 0, <<>>, NoName)
        ELSE IF dry_run
        THEN Result(TRUE, Step(X0, "report"), "", "dry_run", count, <<>>, NoName)
        ELSE IF ~A.ok THEN Result(FALSE, A.X, A.err, "error", A.count, A.map, NoName)
        ELSE IF ~P.ok THEN Result(FALSE, P.X, P.err, "error", A.count, A.map, NoName)
        ELSE Result(TRUE, P.X, "", "done", A.count, A.map, NoName)

\* git reflog expire --expire=now --all
reflog_expire(X) == [Step(X, "reflog_expire") EXCEPT !.reflog = <<>>]

\* every commit some reference still reaches
Referenced(X) ==
    UNION {Ancestors(X.branches[b]) : b \in DOMAIN X.branches}
    \cup UNION {Ancestors(X.remoteRefs[r]) : r \in DOMAIN X.remoteRefs}
    \cup UNION {Ancestors(e.old) \cup Ancestors(e.new) : e \in Range(X.reflog)}
    \cup (IF X.head.attached THEN {} ELSE Ancestors(X.head.oid))

\* git gc --prune=now --aggressive
gc_prune(X) == [Step(X, "gc") EXCEPT !.objects = @ \cap Referenced(X)]

\* for cmd in cleanup_commands { Command::new("git")..output()?; }
\* output() is Err only when git cannot be started; a non-zero exit status
\* is Ok and is not looked at, the command then has done nothing.
cleanup(X, fault) ==
    LET X1 == IF fault = "reflog_exit" THEN Step(X, "reflog_expire failed")
              ELSE reflog_expire(X)
        X2 == IF fault = "gc_exit" THEN Step(X1, "gc failed") ELSE gc_prune(X1)
    IN  IF fault = "reflog_spawn" THEN Err(X, "spawn")
        ELSE IF fault = "gc_spawn" THEN Err(X1, "spawn")
        ELSE Ok(X2)

clean(X, identity, no_confirm, answer, dry_run, now, fault) ==
    LET branch == current_branch(X)
        backup_branch == clean_backup_name(now)
        Xp == IF no_confirm THEN X ELSE Step(X, "prompt")
        B == create_backup_branch(Step(Xp, "confirm"), backup_branch, fault)
        S == squash_all_commits(B.X, identity, DefaultMessage, branch, now, fault)
        G == cleanup(S.X, fault)
    IN  IF dry_run
        THEN Result(TRUE, dry_run_report(X, backup_branch), "", "dry_run",
                    0, <<>>, NoName)
        ELSE IF ~proceed(no_confirm, answer)
        THEN Result(TRUE, Step(Xp, "declined"), "", "aborted", 0, <<>>, NoName)
        ELSE IF ~B.ok THEN Fail(B.X, B.err, NoName)
        ELSE IF ~S.ok THEN Fail(S.X, S.err, backup_branch)
        ELSE IF ~G.ok THEN Result(FALSE, G.X, G.err, "error", 1, <<>>, backup_branch)
        ELSE Result(TRUE, G.X, "", "done", 1, <<>>, backup_branch)

----------------------------------------------------------------------------
(* Config (src/src/config.rs) *)

Identity(name, email) == [name |-> name, email |-> email]

RemoteConfig(name, identity) == [name |-> name, identity |-> identity]

\* impl Default for Identity
DefaultIdentity == Identity("ludwigabap", "ludwigabap@pm.me")

\* impl Default for Config
DefaultConfig ==
    [default_identity |-> DefaultIdentity,
     remotes |-> ("radicle" :> RemoteConfig("rad", "default_identity"))]

\* self.remotes.get(remote): Option<&RemoteConfig>
remotes_get(cfg, remote) ==
    IF remote \in DOMAIN cfg.remotes THEN <<cfg.remotes[remote]>> ELSE <<>>

\* a variant of get_identity that takes every name for an identity
get_identity_of_any_name(cfg, name) ==
    <<Identity(name, cfg.default_identity.email)>>

\* Some(the default identity) for the name "default_identity", else None
get_identity(cfg, name) ==
    IF name = "default_identity"
    THEN <<Identity(cfg.default_identity.name, cfg.default_identity.email)>>
    ELSE <<>>

\* self.remotes.get(remote).and_then(|rc| self.get_identity(&rc.identity))
\*     .unwrap_or_else(|| the default identity)
get_remote_identity(cfg, remote) ==
    LET rc == remotes_get(cfg, remote)
        found == IF rc = <<>> THEN <<>> ELSE get_identity(cfg, rc[1].identity)
    IN  unwrap_or(found, Identity(cfg.default_identity.name,
                                  cfg.default_identity.email))

\* Commands::Push { remote, .. } => Ok(config.get_remote_identity(remote))
get_identity_for_command(cfg, remote) ==
    [ok |-> TRUE, identity |-> get_remote_identity(cfg, remote)]

\* config.remotes.insert(alias, RemoteConfig { name, identity:
\*     identity.unwrap_or_else(|| "anonymous_identity") })
add_remote(cfg, alias, remote_name, identity) ==
    [cfg EXCEPT !.remotes =
        (alias :> RemoteConfig(remote_name,
                               unwrap_or(identity, "anonymous_identity"))) @@ @]

\* nothing has been resolved
Unresolved ==
    [done |-> FALSE, remote |-> "", ok |-> TRUE, identity |-> Identity("", ""),
     before |-> DefaultConfig, after |-> DefaultConfig]

----------------------------------------------------------------------------
(* Initial repositories *)

\* a linear history of three commits
c1 == Commit(1, "m1", Dev, Dev, 1, <<>>)

c2 == Commit(2, "m2", Dev, Dev, 2, <<c1>>)

c3 == Commit(3, "m3", Dev, Dev, 3, <<c2>>)

\* a merge whose left parent was committed on a machine with a slow clock
r0 == Commit(1, "m1", Dev, Dev, 3, <<>>)

pA == Commit(2, "m2", Dev, Dev, 1, <<r0>>)

pB == Commit(3, "m3", Dev, Dev, 4, <<r0>>)

mg == Commit(4, "m4", Dev, Dev, 5, <<pA, pB>>)

InitTips == {c1, c3, mg}

\* the clock starts after every commit of the initial repositories
Clock0 ==
    LET times == {c.time : c \in UNION {Ancestors(t) : t \in InitTips}}
    IN  1 + CHOOSE t \in times : \A u \in times : u <= t

Main == Local("main")

Feature == Local("feature")

Origin == "origin"

Attached(b) == [attached |-> TRUE, name |-> b, oid |-> NoCommit]

Detached(c) == [attached |-> FALSE, name |-> NoName, oid |-> c]

FirstParents(c) == IF c.parents = <<>> THEN {} ELSE {c.parents[1]}

\* the repository as the running invocation sees it
Repo(o, b, h, l, r) ==
    [objects |-> o, branches |-> b, head |-> h, reflog |-> l,
     remoteRefs |-> r, trace |-> <<>>, created |-> {}]

CurX == Repo(objects, branches, head, reflog, remoteRefs)

\* no rewrite is in progress
Idle ==
    [pc |-> "idle", op |-> "none", branch |-> NoName, observed |-> NoCommit,
     new_head |-> NoCommit, msg |-> "", read |-> NoCommit,
     replaced |-> NoCommit, ok |-> TRUE, err |-> ""]

NoInvocation ==
    [op |-> "none", dry_run |-> FALSE, answer |-> FALSE, identity |-> "",
     message |-> <<>>, target |-> NoName, remote |-> "", since |-> NoCommit,
     now |-> 0,
     ok |-> TRUE, err |-> "", outcome |-> "", count |-> 0, map |-> <<>>,
     backup |-> NoName, trace |-> <<>>, created |-> {}]

Init ==
    \E tip \in InitTips :
    \E withFeature \in BOOLEAN, detached \in BOOLEAN, onFeature \in BOOLEAN :
    \E tracked \in {NoCommit, tip} \cup FirstParents(tip) :
        /\ withFeature <=> tip = c3
        /\ detached => tip = c1
        /\ onFeature => withFeature
        /\ objects = Ancestors(tip)
        /\ branches = IF withFeature
                      THEN (Main :> tip) @@ (Feature :> tip.parents[1])
                      ELSE (Main :> tip)
        /\ head = IF detached THEN Detached(tip)
                  ELSE IF onFeature THEN Attached(Feature) ELSE Attached(Main)
        /\ reflog = <<>>
        /\ remoteRefs = IF tracked = NoCommit THEN <<>>
                        ELSE (<<Origin, Main>> :> tracked)
        /\ dirty \in BOOLEAN
        /\ dirty => tip = c3 /\ ~onFeature
        /\ clock = Clock0
        /\ invocations = 0
        /\ pre = Repo(objects, branches, head, reflog, remoteRefs)
        /\ last = NoInvocation
        /\ pending = Idle
        /\ config = DefaultConfig
        /\ resolved = Unresolved

----------------------------------------------------------------------------
(* Invocations *)

Messages == {<<>>, <<"Init">>}

SquashFaults == {"none", "backup", "commit", "set_target"}

AnonymizeFaults == {"none", "find_parent"}

PushFaults == {"none", "commit", "set_target", "push"}

CleanFaults == SquashFaults \cup {"reflog_exit", "reflog_spawn", "gc_exit", "gc_spawn"}

\* the answers to the prompt; one stands for all when there is no prompt
Answers(unasked) == IF unasked THEN {FALSE} ELSE BOOLEAN

\* the faults injected into an invocation: none into a dry run, which makes
\* no call that fails, and none into a run that prompts (a run with --yes
\* makes the same calls)
Injected(faults, spared) == IF spared THEN {"none"} ELSE faults

\* the tie rules of a walk; one stands for all when no two commits of the
\* walk have the same commit time
Ties(X, since) ==
    LET walked == Ancestors(HeadTarget(X)) \ Ancestors(since)
    IN  IF \E a, b \in walked : a # b /\ a.time = b.time
        THEN TieRules ELSE {"fifo"}

\* Utc::now(): the clock never runs backwards; successive invocations are
\* in the same second or in the next
Readings == {t \in {clock, clock + 1} : t <= Clock0 + MaxTicks}

\* the invocation has run: the repository is as it left it
Finish(op, r, info) ==
    /\ invocations < MaxInvocations
    /\ invocations' = invocations + 1
    /\ objects' = r.X.objects
    /\ branches' = r.X.branches
    /\ reflog' = r.X.reflog
    /\ remoteRefs' = r.X.remoteRefs
    /\ clock' = info.now
    /\ pre' = CurX
    /\ last' = [op |-> op, dry_run |-> info.dry_run, answer |-> info.answer,
                identity |-> info.identity, message |-> info.message,
                target |-> info.target, remote |-> info.remote,
                since |-> info.since, now |-> info.now,
                ok |-> r.ok, err |-> r.err, outcome |-> r.outcome,
                count |-> r.count, map |-> r.map, backup |-> r.backup,
                trace |-> r.X.trace, created |-> r.X.created]
    /\ UNCHANGED <<head, dirty, pending>>
    /\ UNCHANGED cfgvars

Squash ==
    \E identity \in Identities, message \in Messages, dry_run \in BOOLEAN,
       no_confirm \in BOOLEAN, now \in Readings :
    \E answer \in Answers(dry_run \/ no_confirm),
       fault \in Injected(SquashFaults, dry_run \/ ~no_confirm) :
        Finish("squash",
               squash(CurX, dirty, identity, message, no_confirm, answer,
                      dry_run, now, fault),
               [dry_run |-> dry_run, answer |-> ~no_confirm /\ answer,
                identity |-> identity,
                message |-> message,
                target |-> current_branch(CurX), remote |-> "",
                since |-> NoCommit, now |-> now])

Push ==
    \E identity \in Identities, branch_arg \in {<<>>, <<Main>>, <<Feature>>},
       force \in BOOLEAN, dry_run \in BOOLEAN, now \in Readings :
    \E fault \in Injected(PushFaults, dry_run),
       tie \in Ties(CurX, get_remote_tracking_branch(CurX, Origin,
                         unwrap_or(branch_arg, current_branch(CurX)))) :
        LET branch == unwrap_or(branch_arg, current_branch(CurX))
        IN  Finish("push",
                   push(CurX, dirty, identity, Origin, branch_arg, force,
                        dry_run, now, tie, fault),
                   [dry_run |-> dry_run, answer |-> FALSE, identity |-> identity,
                    message |-> <<>>, target |-> branch, remote |-> Origin,
                    since |-> get_remote_tracking_branch(CurX, Origin, branch),
                    now |-> now])

Clean ==
    \E identity \in Identities, dry_run \in BOOLEAN, no_confirm \in BOOLEAN,
       now \in Readings :
    \E answer \in Answers(dry_run \/ no_confirm),
       fault \in Injected(CleanFaults, dry_run \/ ~no_confirm) :
        Finish("clean",
               clean(CurX, identity, no_confirm, answer, dry_run, now, fault),
               [dry_run |-> dry_run, answer |-> ~no_confirm /\ answer,
                identity |-> identity,
                message |-> <<>>, target |-> current_branch(CurX),
                remote |-> "", since |-> NoCommit, now |-> now])

\* a direct call of the library function GitOps::anonymize_commits, with
\* since_commit naming nothing or any commit a reference points at
Anonymize ==
    \E identity \in Identities, now \in Readings,
       since \in {NoCommit} \cup {branches[b] : b \in DOMAIN branches} :
    \E tie \in Ties(CurX, since), fault \in AnonymizeFaults :
        LET a == anonymize_commits(CurX, identity, current_branch(CurX), since,
                                   now, tie, fault)
        IN  Finish("anonymize",
                   Result(a.ok, a.X, a.err, IF a.ok THEN "done" ELSE "error",
                          a.count, a.map, NoName),
                   [dry_run |-> FALSE, answer |-> FALSE, identity |-> identity,
                    message |-> <<>>, target |-> current_branch(CurX),
                    remote |-> "", since |-> since, now |-> now])

Next == Squash \/ Push \/ Clean \/ Anonymize

Spec == Init /\ [][Next]_vars

----------------------------------------------------------------------------
(* A rewrite next to another writer of the repository.  squash_all_commits  *)
(* and anonymize_commits are stepped call by call: the walk from HEAD and   *)
(* the commits written, then find_branch, then set_target; between the      *)
(* calls another process may move the branch.                               *)

\* the tree of the commits the other process writes
ExternalTree == 9

\* the commit another process puts on top of the commit `onto`
ExternalCommit(onto, now) ==
    Commit(ExternalTree, "ext", Dev, Dev, now, <<onto>>)

\* a rewrite has read HEAD and written its commits
Written(op, X, observed, new_head, msg) ==
    /\ invocations < MaxInvocations
    /\ invocations' = invocations + 1
    /\ pending.pc \in {"idle", "done"}
    /\ objects' = X.objects
    /\ pending' = [Idle EXCEPT !.pc = "written", !.op = op,
                               !.branch = current_branch(CurX),
                               !.observed = observed, !.new_head = new_head,
                               !.msg = msg]
    /\ UNCHANGED <<branches, head, reflog, remoteRefs, dirty, clock, pre, last>>
    /\ UNCHANGED cfgvars

\* squash_all_commits up to repo.commit(None, ..): the tree of the HEAD
\* commit goes into one commit without parents
SquashWrite ==
    \E identity \in Identities :
        LET tip == HeadTarget(CurX)
            new_commit_oid == Commit(tip.tree, DefaultMessage, identity,
                                     identity, clock, <<>>)
        IN  Written("squash", create_commit(CurX, new_commit_oid), tip,
                    new_commit_oid, "Squashed all commits")

\* anonymize_commits up to the end of its loop: new_head is the entry of
\* commits[0] in new_commits
AnonymizeWrite ==
    \E identity \in Identities :
    \E tie \in Ties(CurX, NoCommit) :
        LET commits == collect_commits(CurX, NoCommit, tie).commits
            L == remap_loop(CurX, Reverse(commits), 1, <<>>, identity, clock, 0, {})
        IN  /\ Len(commits) > 0
            /\ Written("anonymize", L.X, commits[1], MapGet(L.map, commits[1]),
                       "Anonymized commits")

\* self.repo.find_branch(branch, BranchType::Local)?: the reference is read
FindBranch ==
    /\ pending.pc = "written"
    /\ pending' = IF pending.branch \in DOMAIN branches
                  THEN [pending EXCEPT !.pc = "found",
                                       !.read = branches[pending.branch]]
                  ELSE [pending EXCEPT !.pc = "done", !.ok = FALSE,
                                       !.err = "find_branch"]
    /\ UNCHANGED <<objects, branches, head, reflog, remoteRefs, dirty, clock,
                   invocations, pre, last>>
    /\ UNCHANGED cfgvars

\* branch_ref.get_mut().set_target(new_head, msg)?: the library writes the
\* reference if it still has the value find_branch read, and fails if not
SetTarget ==
    /\ pending.pc = "found"
    /\ IF branches[pending.branch] = pending.read
       THEN LET X == set_target(CurX, pending.branch, pending.new_head,
                                pending.msg)
            IN  /\ branches' = X.branches
                /\ reflog' = X.reflog
                /\ pending' = [pending EXCEPT !.pc = "done",
                                   !.replaced = branches[pending.branch]]
       ELSE /\ pending' = [pending EXCEPT !.pc = "done", !.ok = FALSE,
                                          !.err = "modified"]
            /\ UNCHANGED <<branches, reflog>>
    /\ UNCHANGED <<objects, head, remoteRefs, dirty, clock, invocations, pre,
                   last>>
    /\ UNCHANGED cfgvars

\* another process commits on the branch while the rewrite is in progress
ExternalUpdate ==
    /\ pending.pc \in {"written", "found"}
    /\ pending.branch \in DOMAIN branches
    /\ branches[pending.branch].tree # ExternalTree
    /\ LET ext == ExternalCommit(branches[pending.branch], clock)
       IN  /\ objects' = objects \cup {ext}
           /\ branches' = [branches EXCEPT ![pending.branch] = ext]
           /\ reflog' = Append(reflog, [ref |-> pending.branch,
                                        old |-> branches[pending.branch],
                                        new |-> ext, msg |-> "commit"])
    /\ UNCHANGED <<head, remoteRefs, dirty, clock, invocations, pre, last,
                   pending>>
    /\ UNCHANGED cfgvars

NextRace ==
    SquashWrite \/ AnonymizeWrite \/ FindBranch \/ SetTarget \/ ExternalUpdate

SpecRace == Init /\ [][NextRace]_vars

----------------------------------------------------------------------------
(* The configuration file and the identity a push resolves from it *)

Aliases == {"radicle", "origin", "mirror"}

RemoteNames == {"rad", "origin"}

IdentityKeys == {<<>>, <<"default_identity">>, <<"work">>}

DefaultIdentities == {DefaultIdentity, Identity("anon", "anon@example.org")}

\* the file is the user's: any default identity, the default binding or none
InitConfig ==
    /\ \E tip \in {c1} :
        /\ objects = Ancestors(tip)
        /\ branches = (Main :> tip)
        /\ head = Attached(Main)
        /\ pre = Repo(Ancestors(tip), (Main :> tip), Attached(Main), <<>>, <<>>)
    /\ reflog = <<>>
    /\ remoteRefs = <<>>
    /\ dirty = FALSE
    /\ clock = Clock0
    /\ invocations = 0
    /\ last = NoInvocation
    /\ pending = Idle
    /\ \E identity \in DefaultIdentities, bound \in BOOLEAN :
        config = [default_identity |-> identity,
                  remotes |-> IF bound THEN DefaultConfig.remotes ELSE <<>>]
    /\ resolved = Unresolved

\* git-anon config add-remote <alias> <remote_name> [identity]
AddRemote ==
    \E alias \in Aliases \ {"mirror"}, remote_name \in RemoteNames,
       identity \in IdentityKeys :
        /\ config' = add_remote(config, alias, remote_name, identity)
        /\ UNCHANGED <<resolved>>
        /\ UNCHANGED repovars

\* git-anon push <remote>: Config::load, then get_identity_for_command
Resolve ==
    \E remote \in Aliases :
        LET r == get_identity_for_command(config, remote)
        IN  /\ resolved' = [done |-> TRUE, remote |-> remote, ok |-> r.ok,
                            identity |-> r.identity,
                            before |-> config, after |-> config]
            /\ UNCHANGED <<config>>
            /\ UNCHANGED repovars

NextConfig == AddRemote \/ Resolve

SpecConfig == InitConfig /\ [][NextConfig]_vars

----------------------------------------------------------------------------
(* Properties.  They speak of the last invocation: `pre` is the repository *)
(* it started from, the variables are the repository it left.              *)

\* the last invocation made the repository call `step`
Ran(step) == \E i \in 1..Len(last.trace) : last.trace[i] = step

\* the position of the first call `step` in the trace, 0 when there is none
FirstAt(step) ==
    IF Ran(step)
    THEN CHOOSE i \in 1..Len(last.trace) :
             last.trace[i] = step /\ \A j \in 1..(i - 1) : last.trace[j] # step
    ELSE 0

TargetIn(bs) == IF last.target \in DOMAIN bs THEN bs[last.target] ELSE NoCommit

\* the repository is exactly as the invocation found it
Untouched == CurX = pre /\ last.created = {}

NoSideEffect ==
    \A i \in 1..Len(last.trace) :
        last.trace[i] \in {"clean_tree", "prompt", "confirm", "declined", "report"}

CliOps == {"squash", "push", "clean"}

\* the commits the walk of the last invocation had to return
Window == Ancestors(HeadTarget(pre)) \ Ancestors(last.since)

\* C1: an invocation of squash, push or clean that ends with an error or an
\* abort before its set-target call leaves the target branch pointing at the
\* commit it pointed at before the invocation.
C1_FailureKeepsPointer ==
    (last.op \in CliOps /\ (~last.ok \/ last.outcome = "aborted")
       /\ ~Ran("set_target"))
    => TargetIn(branches) = TargetIn(pre.branches)

\* an invocation failed after it had written commit objects
C1_Witness ==
    /\ last.op \in CliOps /\ ~last.ok /\ ~Ran("set_target")
    /\ last.created # {}
    /\ last.target \in DOMAIN pre.branches

\* C2: on a dirty working tree each of squash, push and clean returns an
\* error and changes nothing in the repository.
C2_DirtyTreeRejected ==
    (last.op \in CliOps /\ dirty) => (~last.ok /\ Untouched /\ NoSideEffect)

\* C3: a dry run leaves HEAD, every branch, the object store, the reflog and
\* the remote-tracking references as they were, and pushes and purges nothing.
C3_DryRunPure ==
    last.dry_run => (Untouched /\ NoSideEffect)

\* a dry run printed its report
C3_Witness == last.dry_run /\ last.ok /\ Ran("report")

\* C4: an invocation of squash, push or clean that retargets the branch has,
\* before that, created a backup branch at the pre-rewrite tip.
C4_BackupBeforeRetarget ==
    (last.op \in CliOps /\ Ran("set_target"))
    => /\ \E b \in DOMAIN branches \ DOMAIN pre.branches :
            branches[b] = TargetIn(pre.branches)
       /\ 0 < FirstAt("create_branch")
       /\ FirstAt("create_branch") < FirstAt("set_target")

\* squash or clean has collapsed the history and moved the branch
Collapsed == last.op \in {"squash", "clean"} /\ Ran("set_target")

\* the message the collapse is to use
ExpectedMessage ==
    IF last.op = "clean" \/ last.message = <<>> THEN "Initial commit"
    ELSE last.message[1]

\* the shape of the commit the branch points at after a collapse
CollapsedShape(n) ==
    /\ n.parents = <<>>
    /\ n.tree = HeadTarget(pre).tree
    /\ n.author = last.identity
    /\ n.committer = last.identity
    /\ n.msg = ExpectedMessage

\* C5 as claimed: a collapse creates exactly one new commit object, of the
\* stated shape, and the current branch points at it.
C5_SquashCreatesOneCommit ==
    Collapsed => /\ last.created = {branches[last.target]}
                 /\ CollapsedShape(branches[last.target])
                 /\ last.target = current_branch(CurX)

\* C5 as amended: after a collapse the current branch points at a commit with
\* no parents, the tree of the pre-rewrite tip, the supplied identity as
\* author and committer and the supplied message; that commit is the only
\* object the collapse can have created, and it is created unless the store
\* already held a commit with exactly that content.
C5_SquashResult ==
    Collapsed => /\ CollapsedShape(branches[last.target])
                 /\ last.target = current_branch(CurX)
                 /\ last.created \subseteq {branches[last.target]}
                 /\ branches[last.target] \notin pre.objects
                        => last.created = {branches[last.target]}

\* a squash with a message of its own collapsed a history of several commits
C5_Witness ==
    /\ Collapsed /\ last.op = "squash" /\ last.message # <<>>
    /\ Cardinality(last.created) = 1
    /\ HeadTarget(pre).parents # <<>>

\* anonymize_commits ran its loop to the end (or had nothing to do)
Remapped ==
    /\ last.op \in {"push", "anonymize"} /\ ~last.dry_run
    /\ last.ok \/ Ran("set_target") \/ last.err \in {"find_branch", "set_target"}

\* C6: the number of commits anonymize_commits rewrites is the number of
\* commits reachable from the tip and not from the lower bound.
C6_CountCorrect ==
    Remapped => /\ last.count = Cardinality(Window)
                /\ Len(last.map) = Cardinality(Window)
                /\ {last.map[i].old : i \in 1..Len(last.map)} = Window

\* a rewrite bounded below by a commit inside the history
C6_Witness ==
    /\ Remapped /\ last.since # NoCommit
    /\ 0 < last.count
    /\ last.count < Cardinality(Ancestors(HeadTarget(pre)))

\* C7: every parent of a rewritten commit is the new commit of an entry
\* inserted into the mapping strictly earlier.
C7_ParentsMappedEarlier ==
    \A i \in 1..Len(last.map) :
        \A p \in Range(last.map[i].new.parents) :
            \E j \in 1..(i - 1) : last.map[j].new = p

\* a commit was rewritten with a parent, and one lost a parent
C7_Witness ==
    /\ \E i \in 1..Len(last.map) : last.map[i].new.parents # <<>>
    /\ \E i \in 1..Len(last.map) :
           Len(last.map[i].new.parents) < Len(last.map[i].old.parents)

\* C8: with nothing to rewrite, push (on a clean tree) says up to date and
\* returns Ok, and anonymize_commits returns 0; neither writes a commit,
\* moves a branch or pushes.
C8_EmptyIsNoop ==
    (/\ last.op \in {"push", "anonymize"}
     /\ last.op = "push" => ~dirty
     /\ Window = {})
    => /\ last.ok /\ last.count = 0
       /\ last.outcome = (IF last.op = "push" THEN "up_to_date" ELSE "done")
       /\ Untouched /\ NoSideEffect

\* push found the branch tip on the remote already
C8_Witness ==
    /\ last.op = "push" /\ last.outcome = "up_to_date"
    /\ last.since = HeadTarget(pre)

\* what a dry run of the last push reports from the repository it started from
DryRunCount ==
    push(pre, FALSE, last.identity, last.remote, <<last.target>>, FALSE, TRUE,
         last.now, "fifo", "none").count

\* C9: a dry-run push reports the number of commits the real push rewrites
\* from the same repository, and writes no object to find it.
C9_DryRunCountMatches ==
    /\ (last.op = "push" /\ last.dry_run /\ last.outcome = "dry_run")
       => (last.count = Cardinality(Window) /\ objects = pre.objects
           /\ ~Ran("commit"))
    /\ (last.op = "push" /\ ~last.dry_run /\ Ran("set_target"))
       => (Len(last.map) = DryRunCount /\ last.count = DryRunCount)

\* a real push rewrote the commits above the remote-tracking tip
C9_Witness ==
    /\ last.op = "push" /\ ~last.dry_run /\ Ran("set_target")
    /\ last.since # NoCommit /\ Len(last.map) >= 1

\* the user was asked and said no
Declined == last.op \in {"squash", "clean"} /\ Ran("prompt") /\ ~last.answer

\* C10: declining the prompt of squash or clean returns Ok and changes
\* nothing.
C10_DeclineIsNoop ==
    Declined => (last.ok /\ Untouched /\ NoSideEffect)

\* clean was declined
C10_Witness == Declined /\ last.op = "clean" /\ last.outcome = "aborted"

\* the number of calls `step` in the trace of the last invocation
Calls(step) == Cardinality({i \in 1..Len(last.trace) : last.trace[i] = step})

\* the commit the walk of the last invocation started from
TopMost == HeadTarget(pre)

\* C11: push retargets the branch before it pushes; when the push step then
\* fails, the invocation returns the error, has pushed once only, and the
\* local branch still points at the rewritten tip.
C11_PushFailureKeepsRewrite ==
    (last.op = "push" /\ Ran("push"))
    => /\ 0 < FirstAt("set_target")
       /\ FirstAt("set_target") < FirstAt("push")
       /\ Calls("push") = 1
       /\ ~last.ok
          => /\ last.outcome = "error"
             /\ last.err \in {"remote", "non-fast-forward"}
             /\ MapHas(last.map, TopMost)
             /\ TargetIn(branches) = MapGet(last.map, TopMost)
             /\ last.created \subseteq objects

\* the remote failed a push whose rewrite had moved the branch
C11_Witness ==
    /\ last.op = "push" /\ ~last.ok /\ last.err = "remote" /\ Ran("push")
    /\ TargetIn(branches) # TargetIn(pre.branches)
    /\ last.created # {}

\* the last invocation was a push that rewrote and retargeted the branch and
\* then failed in its push step
PushStepFailed ==
    last.op = "push" /\ ~last.ok /\ Ran("set_target") /\ Ran("push")

\* C12: a push invocation that follows a push whose rewrite succeeded and
\* whose push step failed, on the same branch and with the remote-tracking
\* reference unchanged, creates no commit object and does not retarget the
\* branch again.
C12_RetryPushesOnly ==
    [][(/\ PushStepFailed
        /\ last'.op = "push" /\ ~last'.dry_run
        /\ last'.target = last.target /\ last'.remote = last.remote
        /\ last'.since = last.since)
       => (last'.created = {} /\ ~Ran("set_target")')]_vars

\* C13: squash and clean never collide on the name of the backup branch: an
\* invocation never fails because the backup branch already exists, and one
\* that succeeds adds exactly one branch, under a name no branch had.
C13_BackupNamesNeverCollide ==
    last.op \in {"squash", "clean"}
    => /\ last.err # "branch exists"
       /\ last.outcome = "done"
          => /\ last.backup \notin DOMAIN pre.branches
             /\ DOMAIN branches = DOMAIN pre.branches \cup {last.backup}

\* C14: the update that repoints the branch replaces only the tip the
\* rewrite observed when it started: a target another process has set in
\* the meantime is never overwritten.
C14_UpdateIsCompareAndSet ==
    (pending.pc = "done" /\ pending.ok) => pending.replaced = pending.observed

\* the identities a configuration knows by key
KnownIdentities(cfg) == ("default_identity" :> cfg.default_identity)

\* C15: the identity resolved for a remote alias is the identity its binding
\* names when the alias is bound and the key names a known identity, and the
\* default identity otherwise; the resolution succeeds and leaves the
\* configuration as it was.
C15_RemoteIdentityResolved ==
    resolved.done
    => LET cfg == resolved.before
           bound == resolved.remote \in DOMAIN cfg.remotes
           key == cfg.remotes[resolved.remote].identity
       IN  /\ resolved.ok
           /\ resolved.after = cfg
           /\ resolved.identity =
                  IF bound /\ key \in DOMAIN KnownIdentities(cfg)
                  THEN KnownIdentities(cfg)[key]
                  ELSE cfg.default_identity

\* an alias bound by add-remote without an identity was resolved
C15_Witness ==
    /\ resolved.done
    /\ resolved.remote \in DOMAIN resolved.before.remotes
    /\ resolved.before.remotes[resolved.remote].identity = "anonymous_identity"
    /\ resolved.identity = resolved.before.default_identity
    /\ resolved.before.default_identity # DefaultIdentity

\* C16: a commit enters the rewrite mapping only after each of its parents
\* that the walk returns has entered it.
C16_AncestorsFirst ==
    \A i \in 1..Len(last.map) :
        \A p \in Range(last.map[i].old.parents) :
            p \in Window => \E j \in 1..(i - 1) : last.map[j].old = p

\* the rewritten commit has the tree and message of the original and the
\* new identity as author and committer
SameContent(e) ==
    /\ e.new.tree = e.old.tree
    /\ e.new.msg = e.old.msg
    /\ e.new.author = last.identity
    /\ e.new.committer = last.identity

\* C17: a rewrite without lower bound keeps the shape of the graph: every
\* rewritten commit has the content of its original under the new identity
\* and as many parents as the original, the i-th being the rewritten i-th
\* parent of the original.
C17_ShapePreserved ==
    (last.op \in {"push", "anonymize"} /\ last.since = NoCommit)
    => \A i \in 1..Len(last.map) :
           LET e == last.map[i]
           IN  /\ SameContent(e)
               /\ Len(e.new.parents) = Len(e.old.parents)
               /\ \A k \in 1..Len(e.old.parents) :
                      /\ MapHas(last.map, e.old.parents[k])
                      /\ e.new.parents[k] = MapGet(last.map, e.old.parents[k])

\* the last invocation rewrote commits above a lower bound
Bounded ==
    last.op \in {"push", "anonymize"} /\ last.since # NoCommit /\ last.map # <<>>

\* C18: above a lower bound, the parents of a rewritten commit are new ids
\* of original parents inside the window; a parent outside the window is
\* dropped, the original is not put in its place, and nothing reachable from
\* the new tip is the lower bound or an ancestor of it.
C18_LowerBoundDisconnects ==
    Bounded
    => /\ \A i \in 1..Len(last.map) :
              LET e == last.map[i]
              IN  /\ \A q \in Range(e.new.parents) :
                         \E p \in Range(e.old.parents) :
                             /\ p \in Window /\ MapHas(last.map, p)
                             /\ q = MapGet(last.map, p)
                  /\ \A p \in Range(e.old.parents) :
                         p \notin Window => p \notin Range(e.new.parents)
       /\ Ran("set_target")
          => Ancestors(TargetIn(branches)) \cap Ancestors(last.since) = {}

\* anonymize_commits rewrote at least one commit and returned Ok
RemapOk ==
    /\ last.map # <<>>
    /\ \/ last.op = "anonymize" /\ last.ok
       \/ last.op = "push" /\ Ran("push")

\* C19: a rewrite of at least one commit repoints the branch exactly once,
\* after the last commit of the loop is written, at the mapping's image of
\* the commit the walk started from, in whatever order the walk returned
\* the commits.
C19_RepointedOnceToImageOfTip ==
    /\ last.op \in {"push", "anonymize"} => Calls("set_target") <= 1
    /\ RemapOk
       => /\ Calls("set_target") = 1
          /\ \A i \in 1..Len(last.trace) :
                 last.trace[i] = "commit" => i < FirstAt("set_target")
          /\ Calls("commit") = Len(last.map)
          /\ MapHas(last.map, TopMost)
          /\ TargetIn(branches) = MapGet(last.map, TopMost)
          /\ last.target = current_branch(pre)
                 => TopMost = TargetIn(pre.branches)

\* the branch was repointed after a walk that did not return the commits in
\* topological order
C19_Witness ==
    /\ RemapOk /\ Ran("set_target")
    /\ ~C16_AncestorsFirst
    /\ Len(last.map) > 1
    /\ TargetIn(branches) # TargetIn(pre.branches)

\* the call `a` was made, and before the first call `b`
Before(a, b) == 0 < FirstAt(a) /\ FirstAt(a) < FirstAt(b)

\* the calls of the cleanup of clean, whether git did its work or not
PurgeSteps == {"reflog_expire", "reflog_expire failed"}

CompactSteps == {"gc", "gc failed"}

\* clean started its cleanup
CleanupRan == \E step \in PurgeSteps \cup CompactSteps : Ran(step)

\* C20: an invocation that moves the branch has validated the clean tree,
\* then confirmed (squash and clean), then created the backup branch, then
\* written its commits, then updated the pointer; the reflog purge and then
\* the compaction run in clean only, after the pointer update, and never in
\* a dry run or a declined invocation.
C20_StepsInOrder ==
    /\ (last.op \in CliOps /\ Ran("set_target"))
       => /\ ~last.dry_run
          /\ last.op # "push" => /\ Before("clean_tree", "confirm")
                                 /\ Before("confirm", "create_branch")
          /\ Before("clean_tree", "create_branch")
          /\ Before("create_branch", "commit")
          /\ Before("commit", "set_target")
    /\ CleanupRan
       => /\ last.op = "clean" /\ ~last.dry_run /\ last.outcome # "aborted"
          /\ \A p \in PurgeSteps \cup CompactSteps :
                 Ran(p) => Before("set_target", p)
          /\ \A c \in CompactSteps :
                 Ran(c) => \E p \in PurgeSteps : Before(p, c)

\* C21: a parent whose rewritten commit the mapping holds when its child is
\* rewritten is in the parent list of the rewritten child: a lookup that
\* fails is an error, never a parent left out.
C21_NoParentSilentlyDropped ==
    \A i \in 1..Len(last.map) :
        \A p \in Range(last.map[i].old.parents) :
            \A j \in 1..(i - 1) :
                last.map[j].old = p
                => last.map[j].new \in Range(last.map[i].new.parents)

\* the branches that are backups
IsBackup(b) == b.prefix \in {"backup-", "pre-clean-backup-"}

C23_CleanupBestEffort ==
    (last.op = "clean" /\ Ran("set_target"))
    => /\ last.ok /\ last.outcome = "done"
       /\ \E p \in PurgeSteps : Ran(p)
       /\ \E c \in CompactSteps : Ran(c)

\* the tip of the branch the last push named, before the push
OwnTip == TargetIn(pre.branches)

\* C24: a push of branch B counts and rewrites the commits reachable from
\* the tip of B (and not from the remote-tracking tip), repoints B at the
\* image of its own tip, and leaves the checked-out branch alone when that
\* is not B.
C24_PushRewritesNamedBranch ==
    /\ (/\ last.op = "push" /\ last.outcome \in {"dry_run", "up_to_date"}
        /\ last.target \in DOMAIN pre.branches)
       => last.count = Cardinality(Ancestors(OwnTip) \ Ancestors(last.since))
    /\ (last.op = "push" /\ Ran("set_target"))
       => /\ {last.map[i].old : i \in 1..Len(last.map)}
                 = Ancestors(OwnTip) \ Ancestors(last.since)
          /\ MapHas(last.map, OwnTip)
          /\ TargetIn(branches) = MapGet(last.map, OwnTip)
          /\ current_branch(pre) # last.target
                 => HeadTarget(CurX) = HeadTarget(pre)

====
